---- MODULE Spec2Model ----
(***************************************************************************)
(* A model of pyconduit's LaTeX conversion (pyconduit/shared/latex):       *)
(* the command classes and the rewrite loop of core.py, and the folding of *)
(* the rewritten tree into document objects of converter.py.               *)
(*                                                                         *)
(* Text is a sequence of one-character strings.  A tree node is a record   *)
(* of one shape; k tells text leaves, command invocations, environments,   *)
(* brace groups and MetadataNode markers apart.                            *)
(***************************************************************************)
EXTENDS Integers, Sequences, FiniteSets, TLC

\* ------------------------------------------------------------------ text

NL == "\n"
BS == "\\"

Whitespace == {" ", NL, "\t"}

Digits == <<"0", "1", "2", "3", "4", "5", "6", "7", "8", "9">>

IsDigit(ch) == \E d \in 1..10 : Digits[d] = ch

DigitVal(ch) == (CHOOSE d \in 1..10 : Digits[d] = ch) - 1

RECURSIVE NatStr(_)
NatStr(n) == IF n < 10 THEN <<Digits[n + 1]>> ELSE NatStr(n \div 10) \o <<Digits[(n % 10) + 1]>>

\* "%i" % n
IntStr(n) == IF n < 0 THEN <<"-">> \o NatStr(-n) ELSE NatStr(n)

\* str.strip()
RECURSIVE LStrip(_)
LStrip(s) == IF s # <<>> /\ Head(s) \in Whitespace THEN LStrip(Tail(s)) ELSE s

RECURSIVE RStrip(_)
RStrip(s) == IF s # <<>> /\ s[Len(s)] \in Whitespace THEN RStrip(SubSeq(s, 1, Len(s) - 1)) ELSE s

Strip(s) == RStrip(LStrip(s))

\* sep.join(parts)
RECURSIVE Join(_, _)
Join(parts, sep) ==
  IF parts = <<>> THEN <<>>
  ELSE IF Len(parts) = 1 THEN parts[1]
  ELSE parts[1] \o sep \o Join(Tail(parts), sep)

RECURSIVE Concat(_)
Concat(parts) == IF parts = <<>> THEN <<>> ELSE parts[1] \o Concat(Tail(parts))

\* the index of the first "\n\n" in s, 0 when there is none
RECURSIVE FindBreakFrom(_, _)
FindBreakFrom(s, i) ==
  IF i + 1 > Len(s) THEN 0
  ELSE IF s[i] = NL /\ s[i + 1] = NL THEN i
  ELSE FindBreakFrom(s, i + 1)

\* the index of the last "\n\n" in s, as rsplit would cut
FindBreak_Last(s) ==
  LET B == {p \in 1..(Len(s) - 1) : s[p] = NL /\ s[p + 1] = NL}
  IN IF B = {} THEN 0 ELSE CHOOSE p \in B : \A q \in B : q <= p

FindBreak(s) == FindBreakFrom(s, 1)

\* s.replace("))", ")")
RECURSIVE ReplaceParens(_)
ReplaceParens(s) ==
  IF Len(s) < 2 THEN s
  ELSE IF s[1] = ")" /\ s[2] = ")" THEN <<")">> \o ReplaceParens(SubSeq(s, 3, Len(s)))
  ELSE <<s[1]>> \o ReplaceParens(Tail(s))

\* ------------------------------------------------------------------ tree

\* MetadataNode.kwargs: hasText says whether the key "text" is present; the
\* keys num, conduit_include and conduit_num are present when hasNum.
Kwargs(cls) == [cls |-> cls, hasText |-> FALSE, text |-> <<>>, hasNum |-> FALSE,
                num |-> <<>>, conduit_include |-> FALSE, conduit_num |-> <<>>]

\* MetadataNode(cls, collect_text, **kwargs)
MetadataNode(cls, collect_text, kwargs) == [collect_text |-> collect_text, kwargs |-> kwargs]

NoKw == MetadataNode("", FALSE, Kwargs(""))

TextLeaf(s) == [k |-> "text", name |-> "", args |-> <<>>, c |-> <<>>, s |-> s, kw |-> NoKw]

Cmd(name, args) == [k |-> "cmd", name |-> name, args |-> args, c |-> <<>>, s |-> <<>>, kw |-> NoKw]

\* \item and its text up to the next \item
Item(c) == [k |-> "cmd", name |-> "item", args |-> <<>>, c |-> c, s |-> <<>>, kw |-> NoKw]

Env(name, c) == [k |-> "env", name |-> name, args |-> <<>>, c |-> c, s |-> <<>>, kw |-> NoKw]

Group(c) == [k |-> "group", name |-> "BraceGroup", args |-> <<>>, c |-> c, s |-> <<>>, kw |-> NoKw]

Meta(m) == [k |-> "meta", name |-> "", args |-> <<>>, c |-> <<>>, s |-> <<>>, kw |-> m]

Brace(c) == [br |-> "BraceGroup", c |-> c]

Bracket(c) == [br |-> "BracketGroup", c |-> c]

\* the characters of a name
NameChars(name) ==
  CASE name = "textbf" -> <<"t", "e", "x", "t", "b", "f">>
    [] name = "ldots" -> <<"l", "d", "o", "t", "s">>
    [] name = "sheetid" -> <<"s", "h", "e", "e", "t", "i", "d">>
    [] name = "sheetname" -> <<"s", "h", "e", "e", "t", "n", "a", "m", "e">>
    [] name = "it" -> <<"i", "t">>
    [] name = "center" -> <<"c", "e", "n", "t", "e", "r">>
    [] name = "itemize" -> <<"i", "t", "e", "m", "i", "z", "e">>
    [] name = "tikzpicture" -> <<"t", "i", "k", "z", "p", "i", "c", "t", "u", "r", "e">>
    [] name = "item" -> <<"i", "t", "e", "m">>
    [] name = "z" -> <<"z">>
    [] name = "leth" -> <<"l", "e", "t", "h">>
    [] name = "ze" -> <<"z", "e">>
    [] name = "foo" -> <<"f", "o", "o">>
    [] name = "newcommand" -> <<"n", "e", "w", "c", "o", "m", "m", "a", "n", "d">>
    [] name = "renewcommand" -> <<"r", "e", "n", "e", "w", "c", "o", "m", "m", "a", "n", "d">>
    [] OTHER -> <<name>>

\* str() of a MetadataNode is the default object repr,
\* "<pyconduit.shared.latex.core.MetadataNode object at 0x............>", of
\* 67 characters; the characters between the angle brackets are opaque here
MetaRepr == <<"<">> \o [j \in 1..65 |-> "_"] \o <<">">>

\* str(node): the re-serialization of a node, unexpanded markup included
RECURSIVE Str(_)
RECURSIVE StrSeq(_)
RECURSIVE StrArgs(_)
Str(n) ==
  CASE n.k = "text" -> n.s
    [] n.k = "meta" -> MetaRepr
    [] n.k = "group" -> <<"{">> \o StrSeq(n.c) \o <<"}">>
    [] n.k = "env" -> <<BS, "b", "e", "g", "i", "n", "{">> \o NameChars(n.name) \o <<"}">>
                      \o StrSeq(n.c)
                      \o <<BS, "e", "n", "d", "{">> \o NameChars(n.name) \o <<"}">>
    [] OTHER -> <<BS>> \o NameChars(n.name) \o StrArgs(n.args) \o StrSeq(n.c)
StrSeq(ns) == IF ns = <<>> THEN <<>> ELSE Str(ns[1]) \o StrSeq(Tail(ns))
StrArgs(as) ==
  IF as = <<>> THEN <<>>
  ELSE (IF as[1].br = "BraceGroup" THEN <<"{">> \o StrSeq(as[1].c) \o <<"}">>
        ELSE <<"[">> \o StrSeq(as[1].c) \o <<"]">>)
       \o StrArgs(Tail(as))

\* [str(x) for x in nodes]
StrEach(ns) == [i \in 1..Len(ns) |-> Str(ns[i])]

\* ------------------------------------------------------------ MetadataNode

\* a collect that assigns the chunk to the buffer where the code appends it
Collect_Overwrite(m, isNone, text) ==
  LET kw0 == IF m.collect_text /\ ~m.kwargs.hasText
             THEN [m.kwargs EXCEPT !.hasText = TRUE, !.text = <<>>]
             ELSE m.kwargs
      brk == FindBreak(kw0.text)
  IN IF m.collect_text /\ ~isNone
     THEN [node |-> [m EXCEPT !.kwargs = [kw0 EXCEPT !.text = text]],
           some |-> FALSE, excess |-> <<>>]
     ELSE IF ~m.collect_text \/ kw0.text # <<>>
     THEN IF m.collect_text /\ brk # 0
          THEN [node |-> [m EXCEPT !.kwargs = [kw0 EXCEPT !.text = SubSeq(kw0.text, 1, brk - 1)]],
                some |-> TRUE,
                excess |-> SubSeq(kw0.text, brk + 2, Len(kw0.text))]
          ELSE [node |-> [m EXCEPT !.kwargs = kw0], some |-> TRUE, excess |-> <<>>]
     ELSE [node |-> [m EXCEPT !.kwargs = kw0], some |-> FALSE, excess |-> <<>>]

\* a flush that finalizes an empty buffer too
Finalizes_Always(collect_text, text) == TRUE

\* line 28: a call that does not append returns the descriptor when the node
\* does not collect text or its buffer is not empty
Finalizes(collect_text, text) == ~collect_text \/ text # <<>>

\* MetadataNode.collect(text); isNone says that text is the flush sentinel None.
\* The result holds the node after the call, whether a descriptor (the node's
\* kwargs) is returned, and the excess text.
Collect(m, isNone, text) ==
  LET kw0 == IF m.collect_text /\ ~m.kwargs.hasText
             THEN [m.kwargs EXCEPT !.hasText = TRUE, !.text = <<>>]
             ELSE m.kwargs
      brk == FindBreak(kw0.text)
  IN IF m.collect_text /\ ~isNone
     THEN [node |-> [m EXCEPT !.kwargs = [kw0 EXCEPT !.text = kw0.text \o text]],
           some |-> FALSE, excess |-> <<>>]
     ELSE IF Finalizes(m.collect_text, kw0.text)
     THEN IF m.collect_text /\ brk # 0
          THEN [node |-> [m EXCEPT !.kwargs = [kw0 EXCEPT !.text = SubSeq(kw0.text, 1, brk - 1)]],
                some |-> TRUE,
                excess |-> SubSeq(kw0.text, brk + 2, Len(kw0.text))]
          ELSE [node |-> [m EXCEPT !.kwargs = kw0], some |-> TRUE, excess |-> <<>>]
     ELSE [node |-> [m EXCEPT !.kwargs = kw0], some |-> FALSE, excess |-> <<>>]

\* ---------------------------------------------------------------- commands

\* A LatexCommand object.  step values (ProblemMacro.letter, .problem) and
\* optional_arg are <<>> for None and <<v>> for a value v.
BaseCommand(cls) ==
  [cls |-> cls, priority |-> 0, content |-> <<>>, num_args |-> 0, optional_arg |-> <<>>,
   trim_contents |-> FALSE, metaname |-> "", replace_name |-> "", target_name |-> "",
   strip |-> FALSE, fmt |-> <<>>, letter |-> <<>>, problem |-> <<>>,
   conduit_include |-> FALSE, cfmt |-> <<>>]

\* hash_regex.sub in TextCommand.__init__: scanning from the left, "#d" at the
\* start of the string, or "#d" after a character other than a backslash (which
\* the match consumes), becomes the placeholder "{d-1}".
Placeholder(d) ==
  CASE d = 0 -> "{-1}" [] d = 1 -> "{0}" [] d = 2 -> "{1}" [] d = 3 -> "{2}" [] d = 4 -> "{3}"
    [] d = 5 -> "{4}" [] d = 6 -> "{5}" [] d = 7 -> "{6}" [] d = 8 -> "{7}" [] OTHER -> "{8}"

Placeholders == {Placeholder(d) : d \in 0..9}

PlaceholderIndex(tok) == (CHOOSE d \in 0..9 : Placeholder(d) = tok) - 1

RECURSIVE HashSubFrom(_, _)
HashSubFrom(content, i) ==
  IF i > Len(content) THEN <<>>
  ELSE IF i = 1 /\ Len(content) >= 2 /\ content[1] = "#" /\ IsDigit(content[2])
  THEN <<Placeholder(DigitVal(content[2]))>> \o HashSubFrom(content, 3)
  ELSE IF i + 2 <= Len(content) /\ content[i] # BS /\ content[i + 1] = "#" /\ IsDigit(content[i + 2])
  THEN <<content[i], Placeholder(DigitVal(content[i + 2]))>> \o HashSubFrom(content, i + 3)
  ELSE <<content[i]>> \o HashSubFrom(content, i + 1)

HashSub(content) == HashSubFrom(content, 1)

\* TextCommand(content, num_args, optional_arg, trim_contents)
TextCommand(content, num_args, optional_arg, trim_contents) ==
  [BaseCommand("TextCommand") EXCEPT !.content = HashSub(content), !.num_args = num_args,
                                     !.optional_arg = optional_arg, !.trim_contents = trim_contents]

\* TextEnv(content, num_args, metaname)
TextEnv(content, num_args, metaname) ==
  [TextCommand(content, num_args, <<>>, FALSE) EXCEPT !.cls = "TextEnv", !.metaname = metaname]

ItemExtractor(fmt) == [BaseCommand("ItemExtractor") EXCEPT !.fmt = fmt]

ErrorCommand(repl_name) == [BaseCommand("ErrorCommand") EXCEPT !.replace_name = repl_name]

GlobalConfig(target_name) ==
  [BaseCommand("GlobalConfig") EXCEPT !.target_name = target_name, !.strip = TRUE]

ProblemMacro(fmt, letter, problem, conduit_include, cfmt) ==
  [BaseCommand("ProblemMacro") EXCEPT !.fmt = fmt, !.letter = letter, !.problem = problem,
                                      !.conduit_include = conduit_include, !.cfmt = cfmt]

\* LatexCommand.get_priority and its overrides
get_priority(cmd) ==
  CASE cmd.cls = "TextEnv" -> -1
    [] cmd.cls = "ProblemMacro" -> -333
    [] OTHER -> cmd.priority

\* content.format(*args): a placeholder whose index no argument has raises
\* IndexError, "{-1}" is looked up as a keyword and raises KeyError
RECURSIVE FormatErr(_, _)
FormatErr(content, args) ==
  IF content = <<>> THEN ""
  ELSE IF Head(content) \in Placeholders /\ PlaceholderIndex(Head(content)) < 0 THEN "KeyError"
  ELSE IF Head(content) \in Placeholders /\ PlaceholderIndex(Head(content)) >= Len(args) THEN "IndexError"
  ELSE FormatErr(Tail(content), args)

RECURSIVE Format(_, _)
Format(content, args) ==
  IF content = <<>> THEN <<>>
  ELSE (IF Head(content) \in Placeholders
        THEN args[PlaceholderIndex(Head(content)) + 1]
        ELSE <<Head(content)>>)
       \o Format(Tail(content), args)

Result(err, repl, ctx) == [err |-> err, repl |-> repl, ctx |-> ctx]

\* the condition under which TextCommand.apply raises "Invalid number of arguments"
InvalidArgCount(cmd, nargs) ==
  \/ nargs > cmd.num_args
  \/ nargs < cmd.num_args - 1
  \/ (nargs = cmd.num_args - 1 /\ cmd.optional_arg = <<>>)

\* TextCommand.apply(context, node, *args)
TextCommandApply(cmd, ctx, node, args) ==
  IF InvalidArgCount(cmd, Len(args)) THEN Result("InvalidArgumentCount", <<>>, ctx)
  ELSE LET full == IF Len(args) = cmd.num_args THEN args ELSE cmd.optional_arg \o args
           used == IF cmd.trim_contents THEN [i \in 1..Len(full) |-> Strip(full[i])] ELSE full
       IN IF FormatErr(cmd.content, used) # "" THEN Result(FormatErr(cmd.content, used), <<>>, ctx)
          ELSE Result("", <<TextLeaf(Format(cmd.content, used))>>, ctx)

\* TextEnv.apply(context, node, *args)
TextEnvApply(cmd, ctx, node, args) ==
  IF Len(args) # 0 THEN Result("InvalidArgumentCount", <<>>, ctx)
  ELSE LET body == <<Concat(StrEach(node.c))>>
       IN IF FormatErr(cmd.content, body) # "" THEN Result(FormatErr(cmd.content, body), <<>>, ctx)
          ELSE Result("", <<Meta(MetadataNode(cmd.metaname, TRUE, Kwargs(cmd.metaname))),
                            TextLeaf(Format(cmd.content, body)),
                            Meta(MetadataNode("text", TRUE, Kwargs("text")))>>, ctx)

\* the loop of ItemExtractor.apply: the item texts of children cs, after ans;
\* <<"error">> stands for the ValueError of a list that does not begin with \item
RECURSIVE ExtractItems(_, _)
ExtractItems(cs, ans) ==
  IF cs = <<>> THEN ans
  ELSE LET child == Head(cs) IN
       IF child.k = "text" /\ child.s = <<>> THEN ExtractItems(Tail(cs), ans)
       ELSE IF child.k = "cmd" /\ child.name = "item"
       THEN ExtractItems(Tail(cs), Append(ans, SubSeq(Str(child), 7, Len(Str(child)))))
       ELSE IF ans = <<>> THEN <<<<"error">>>>
       ELSE ExtractItems(Tail(cs), [ans EXCEPT ![Len(ans)] = @ \o Str(child)])

\* ItemExtractor.apply(context, node, *args); fmt is the text before %(item)s
ItemExtractorApply(cmd, ctx, node, args) ==
  LET ans == ExtractItems(node.c, <<>>)
      items == [i \in 1..Len(ans) |-> cmd.fmt \o ans[i]]
  IN IF ans = <<<<"error">>>> THEN Result("ItemExtractionError", <<>>, ctx)
     ELSE Result("", <<Meta(MetadataNode("text", TRUE,
                              [Kwargs("text") EXCEPT !.hasText = TRUE,
                                                     !.text = <<NL, NL>> \o Join(items, <<NL>>)])),
                       Meta(MetadataNode("text", TRUE, Kwargs("text")))>>, ctx)

\* ErrorCommand.apply
ErrorCommandApply(cmd, ctx, node, args) == Result("DeprecatedCommand", <<>>, ctx)

\* a GlobalConfig that writes its value under both keys
GlobalConfigApply_BothKeys(cmd, ctx, node, args) ==
  IF args = <<>> THEN Result("IndexError", <<>>, ctx)
  ELSE LET v == IF cmd.strip THEN Strip(args[1]) ELSE args[1]
       IN Result("", <<TextLeaf(<<>>)>>,
                 [ctx EXCEPT !.sheet_id = [set |-> TRUE, v |-> v],
                             !.sheet_name = [set |-> TRUE, v |-> v]])

\* GlobalConfig.apply: context[target_name] = args[0], stripped; returns ""
GlobalConfigApply(cmd, ctx, node, args) ==
  IF args = <<>> THEN Result("IndexError", <<>>, ctx)
  ELSE LET v == IF cmd.strip THEN Strip(args[1]) ELSE args[1]
       IN Result("", <<TextLeaf(<<>>)>>,
                 IF cmd.target_name = "sheet_id"
                 THEN [ctx EXCEPT !.sheet_id = [set |-> TRUE, v |-> v]]
                 ELSE [ctx EXCEPT !.sheet_name = [set |-> TRUE, v |-> v]])

\* an update that adds every step, a non-positive one too
update_iterator_AlwaysAdd(it, value) ==
  IF value = <<>> THEN it ELSE it + value[1]

\* ProblemMacro.update_iterator(context, it_name, value)
update_iterator(it, value) ==
  IF value = <<>> THEN it
  ELSE IF value[1] > 0 THEN it + value[1]
  ELSE value[1]

\* the characters from the one before first-letter on: chr(ord(first) + i) is
\* Alphabet[i + 2]
Alphabet == <<"@", "a", "b", "c", "d", "e", "f", "g", "h", "i", "j", "k", "l", "m">>

Chr(i) == IF i + 2 \in 1..Len(Alphabet) THEN Alphabet[i + 2] ELSE "?"

\* letter + sum(1 for i in problem_skip_indices if i < letter)
letter_index(letter, skips) == letter + Cardinality({i \in skips : i < letter})

\* fmt % format_data, for the keys z, leth and ext
RECURSIVE PercentFormat(_, _)
PercentFormat(fmt, data) ==
  IF fmt = <<>> THEN <<>>
  ELSE (CASE Head(fmt) = "%(z)i" -> IntStr(data.z)
          [] Head(fmt) = "%(leth)s" -> <<data.leth>>
          [] Head(fmt) = "%(ext)s" -> data.ext
          [] OTHER -> <<Head(fmt)>>)
       \o PercentFormat(Tail(fmt), data)

\* ProblemMacro.apply(context, node, *args)
ProblemMacroApply(cmd, ctx, node, args) ==
  LET problem == update_iterator(ctx.problem, cmd.problem)
      letter == update_iterator(ctx.letter, cmd.letter)
      data == [z |-> problem,
               leth |-> Chr(letter_index(letter, ctx.skips)),
               ext |-> IF args = <<>> THEN <<>> ELSE <<" ", "(">> \o args[1] \o <<")">>]
  IN Result("", <<Meta(MetadataNode("problem", TRUE,
                         [Kwargs("problem") EXCEPT !.hasNum = TRUE,
                                                   !.num = ReplaceParens(PercentFormat(cmd.fmt, data)),
                                                   !.conduit_include = cmd.conduit_include,
                                                   !.conduit_num = PercentFormat(cmd.cfmt, data)]))>>,
            [ctx EXCEPT !.problem = problem, !.letter = letter])

\* callback.apply(context, node, *args), by the class of the command
Apply(cmd, ctx, node, args) ==
  CASE cmd.cls = "TextCommand" -> TextCommandApply(cmd, ctx, node, args)
    [] cmd.cls = "TextEnv" -> TextEnvApply(cmd, ctx, node, args)
    [] cmd.cls = "ItemExtractor" -> ItemExtractorApply(cmd, ctx, node, args)
    [] cmd.cls = "ErrorCommand" -> ErrorCommandApply(cmd, ctx, node, args)
    [] cmd.cls = "GlobalConfig" -> GlobalConfigApply(cmd, ctx, node, args)
    [] OTHER -> ProblemMacroApply(cmd, ctx, node, args)

\* ------------------------------------------------------------ command table

\* The commands of converter.BuiltinCommands the documents of the model use
BuiltinCommands ==
  ("it" :> ErrorCommand("textit"))
  @@ ("textbf" :> TextCommand(<<"*", "*", "#", "1", "*", "*">>, 1, <<>>, TRUE))
  @@ ("ldots" :> TextCommand(<<".", ".", ".">>, 0, <<>>, FALSE))
  @@ ("z" :> ProblemMacro(<<"%(z)i", "%(ext)s", ".">>, <<0>>, <<1>>, TRUE, <<"%(z)i">>))
  @@ ("leth" :> ProblemMacro(<<"%(leth)s", "%(ext)s", ")">>, <<1>>, <<>>, TRUE, <<"%(z)i", "%(leth)s">>))
  @@ ("ze" :> ProblemMacro(<<"%(z)i", "%(ext)s", ".">>, <<-1>>, <<1>>, FALSE, <<>>))
  @@ ("sheetid" :> GlobalConfig("sheet_id"))
  @@ ("sheetname" :> GlobalConfig("sheet_name"))
  @@ ("center" :> TextEnv(<<"#", "1">>, 1, "text"))
  @@ ("tikzpicture" :> TextEnv(<<"#", "1">>, 1, "tikz"))
  @@ ("itemize" :> ItemExtractor(<<"*", " ">>))

priority_cap == 10000

\* max of a non-empty set of integers
MaxOf(S) == CHOOSE x \in S : \A y \in S : y <= x

\* sorted(set(...), reverse=True)
RECURSIVE SortedDesc(_)
SortedDesc(S) == IF S = {} THEN <<>> ELSE <<MaxOf(S)>> \o SortedDesc(S \ {MaxOf(S)})

\* sorted(...) without reverse=True: lowest first
RECURSIVE SortedAsc(_)
SortedAsc(S) ==
  IF S = {} THEN <<>>
  ELSE LET m == CHOOSE v \in S : \A y \in S : v <= y IN <<m>> \o SortedAsc(S \ {m})

sorted_priorities_Ascending(commands) ==
  SortedAsc({get_priority(commands[n]) : n \in DOMAIN commands})

\* line 254: the distinct priorities of the table, highest first
sorted_priorities(commands) == SortedDesc({get_priority(commands[n]) : n \in DOMAIN commands})

\* command_keys of convert_latex
command_keys(commands, priority) == {n \in DOMAIN commands : get_priority(commands[n]) = priority}

\* ------------------------------------------------------------------ the tree

\* the children of a node in document order: the contents of its argument
\* groups, then its own contents
RECURSIVE ArgChildren(_)
ArgChildren(as) == IF as = <<>> THEN <<>> ELSE as[1].c \o ArgChildren(Tail(as))

Children(n) == ArgChildren(n.args) \o n.c

IsInvocation(n, keys) == n.k \in {"cmd", "env"} /\ n.name \in keys

\* soup.find_all(keys): the invocations of keys among all descendants, in
\* document order
RECURSIVE FindAll(_, _)
FindAll(ns, keys) ==
  IF ns = <<>> THEN <<>>
  ELSE (IF IsInvocation(ns[1], keys) THEN <<ns[1]>> ELSE <<>>)
       \o FindAll(Children(ns[1]), keys)
       \o FindAll(Tail(ns), keys)

\* ns with the n-th invocation of keys (in the order of FindAll) replaced by the
\* nodes repl, siblings kept in order
\* a splice that leaves the invocation in the tree
ReplaceNth_Keep(ns, keys, n, repl) == ns

RECURSIVE ReplaceNth(_, _, _, _)
RECURSIVE ReplaceInArgs(_, _, _, _)
ReplaceNth(ns, keys, n, repl) ==
  IF ns = <<>> THEN <<>>
  ELSE LET hd == ns[1]
           self == IF IsInvocation(hd, keys) THEN 1 ELSE 0
           inArgs == Len(FindAll(ArgChildren(hd.args), keys))
           inC == Len(FindAll(hd.c, keys))
       IN IF self = 1 /\ n = 1 THEN repl \o Tail(ns)
          ELSE IF n - self <= inArgs
          THEN <<[hd EXCEPT !.args = ReplaceInArgs(hd.args, keys, n - self, repl)]>> \o Tail(ns)
          ELSE IF n - self - inArgs <= inC
          THEN <<[hd EXCEPT !.c = ReplaceNth(hd.c, keys, n - self - inArgs, repl)]>> \o Tail(ns)
          ELSE <<hd>> \o ReplaceNth(Tail(ns), keys, n - self - inArgs - inC, repl)
ReplaceInArgs(as, keys, n, repl) ==
  IF as = <<>> THEN <<>>
  ELSE LET here == Len(FindAll(as[1].c, keys))
       IN IF n <= here
          THEN <<[as[1] EXCEPT !.c = ReplaceNth(as[1].c, keys, n, repl)]>> \o Tail(as)
          ELSE <<as[1]>> \o ReplaceInArgs(Tail(as), keys, n - here, repl)

\* TextCommand.recursion_ready: no direct child of an argument group is a
\* TexCmd whose name is in the table
TextCommandReady(node, commands) ==
  \A i \in 1..Len(node.args) : \A j \in 1..Len(node.args[i].c) :
    ~(node.args[i].c[j].k = "cmd" /\ node.args[i].c[j].name \in DOMAIN commands)

\* ItemExtractor.recursion_ready: no child node has a name in the table
ItemExtractorReady(node, commands) ==
  \A j \in 1..Len(node.c) :
    ~(node.c[j].k \in {"cmd", "env", "group"} /\ node.c[j].name \in DOMAIN commands)

\* every class with the base class's recursion_ready
recursion_ready_Always(callback, node, commands) == TRUE

\* callback.recursion_ready(cmd, all_commands)
recursion_ready(callback, node, commands) ==
  CASE callback.cls \in {"TextCommand", "TextEnv"} -> TextCommandReady(node, commands)
    [] callback.cls = "ItemExtractor" -> ItemExtractorReady(node, commands)
    [] OTHER -> TRUE

\* arg_data of convert_latex: each argument group's children, space-joined
arg_data(node) == [i \in 1..Len(node.args) |-> Join(StrEach(node.args[i].c), <<" ">>)]

\* soup_to_command: "MalformedMacro" for the wrong group shape; otherwise the
\* body group's child list (not a string) goes to TextCommand.__init__, whose
\* hash_regex.sub raises TypeError
soup_to_command(node) ==
  LET brace_args == SelectSeq(node.args, LAMBDA a : a.br = "BraceGroup")
      bracket_args == SelectSeq(node.args, LAMBDA a : a.br = "BracketGroup")
  IN IF Len(brace_args) # 2 \/ Len(bracket_args) > 2 THEN "MalformedMacro" ELSE "TypeError"

\* ------------------------------------------------------------------- state

VARIABLES
  pc,                \* where the conversion is
  cfg,               \* the configuration: the three compilation limits
  doc,               \* the parsed tree as convert_latex received it
  context_commands,  \* the command table, name -> command
  all_priorities,    \* all_priorities of convert_latex
  soup,              \* the top-level children of the tree
  context,           \* the shared context: iterators, sheet_id, sheet_name
  i,                 \* the outer iteration of the rewrite loop
  pidx,              \* the index in all_priorities of the level being scanned
  cursor,            \* how many invocations this scan of the level has skipped
  last_stage,        \* last_stage of convert_latex
  err,               \* the error raised, "" when none
  objects,           \* doc.objects
  current_metadata,  \* current_metadata of build_latex
  fpos,              \* the index in soup.contents of the node folding is at
  run,               \* 1 in the conversion, 2 in a second run of the rewrite loop
  nexp,              \* the expansions of this run of the rewrite loop
  levels,            \* the levels scanned in this outer iteration, with their expansions
  readyAtStart,      \* the levels with a ready invocation when this outer iteration began
  lastExp,           \* the last expansion
  call               \* the last call of the function a function-level specification applies

input == <<cfg, doc, context_commands, call>>

scan == <<pidx, cursor, last_stage>>

fold == <<objects, current_metadata, fpos>>

vars == <<pc, input, all_priorities, soup, context, i, scan, err, fold, run, nexp,
          levels, readyAtStart, lastExp>>

\* the invocations of the level being scanned, as find_all yields them now
Candidates == FindAll(soup, command_keys(context_commands, all_priorities[pidx]))

\* whether some descendant of the argument groups of node invokes a table command
InnerTable(node) == FindAll(ArgChildren(node.args), DOMAIN context_commands) # <<>>

\* the priorities that have a recursion-ready invocation in the tree ns
ReadyLevels(ns) ==
  LET found == FindAll(ns, DOMAIN context_commands)
  IN {get_priority(context_commands[found[j].name]) :
        j \in {n \in 1..Len(found) :
                 recursion_ready(context_commands[found[n].name], found[n], context_commands)}}

\* whether a direct child of an argument group of node is a command of the table
DirectArgInvocation(node) ==
  \E a \in 1..Len(node.args) : \E j \in 1..Len(node.args[a].c) :
    node.args[a].c[j].k = "cmd" /\ node.args[a].c[j].name \in DOMAIN context_commands

\* whether a direct child of node's contents is a node named in the table
DirectContentInvocation(node) ==
  \E j \in 1..Len(node.c) : node.c[j].k # "text" /\ node.c[j].name \in DOMAIN context_commands

NoExp == [valid |-> FALSE, name |-> "", cls |-> "", priority |-> 0, iter |-> 0,
          innerTable |-> FALSE, directArg |-> FALSE, directContent |-> FALSE,
          higherReady |-> FALSE]

NoCall == [fn |-> ""]

NewContext == [problem |-> 0, letter |-> 0, skips |-> {},
               sheet_id |-> [set |-> FALSE, v |-> <<>>],
               sheet_name |-> [set |-> FALSE, v |-> <<>>]]

FreshText == MetadataNode("text", TRUE, Kwargs("text"))

\* ------------------------------------------------------------ convert_latex

\* line 242-254: the macro definitions are turned into commands, in the order
\* of command_adds, and the first one raises; without any, the priorities of the
\* table are sorted
Discover ==
  /\ pc = "discover"
  /\ LET command_adds == FindAll(soup, {"newcommand"}) \o FindAll(soup, {"renewcommand"})
     IN IF command_adds = <<>>
        THEN /\ pc' = "outer"
             /\ err' = err
             /\ all_priorities' = sorted_priorities(context_commands)
        ELSE /\ pc' = "failed"
             /\ err' = soup_to_command(command_adds[1])
             /\ all_priorities' = all_priorities
  /\ UNCHANGED <<input, soup, context, i, scan, fold, run, nexp, levels, readyAtStart, lastExp>>

\* a loop that runs one iteration more than the limit
RangeExhausted_OneMore(iter, limit) == iter > limit

\* line 255: range(nesting_limit) has no iteration left
RangeExhausted(iter, limit) == iter >= limit

\* line 255-256: the next outer iteration begins, or the for loop is exhausted
\* and its else branch raises
OuterStart ==
  /\ pc = "outer"
  /\ IF RangeExhausted(i, cfg.nesting_limit)
     THEN /\ pc' = "failed"
          /\ err' = "NestingLimitExceeded"
          /\ UNCHANGED <<scan, levels, readyAtStart>>
     ELSE /\ last_stage' = priority_cap
          /\ pidx' = 1
          /\ cursor' = 0
          /\ levels' = <<[priority |-> all_priorities[1], expanded |-> 0]>>
          /\ readyAtStart' = ReadyLevels(soup)
          /\ pc' = "scan"
          /\ err' = err
  /\ UNCHANGED <<input, all_priorities, soup, context, i, fold, run, nexp, lastExp>>

\* the position of the iteration over find_all after a skipped invocation
NextInScan(pos) == pos + 1

\* line 261-262: the next invocation is not recursion-ready and is skipped
Skip ==
  /\ pc = "scan"
  /\ cursor < Len(Candidates)
  /\ LET cmd == Candidates[cursor + 1]
     IN ~recursion_ready(context_commands[cmd.name], cmd, context_commands)
  /\ cursor' = NextInScan(cursor)
  /\ UNCHANGED <<pc, input, all_priorities, soup, context, i, pidx, last_stage, err, fold,
                 run, nexp, levels, readyAtStart, lastExp>>

\* a loop that does not record the level of an expansion
StageAfterInvoke_Stale(stage, priority) == stage

\* last_stage after an invocation at priority was expanded (line 266)
StageAfterInvoke(stage, priority) == priority

\* a size check that never fires
SizeExceeded_Never(soup_len, char_limit) == FALSE

\* line 268: whether the serialized tree is over the character limit
SizeExceeded(soup_len, char_limit) == soup_len > char_limit

\* line 259-261: the scan has a next invocation and it is recursion-ready
CanExpand ==
  /\ pc = "scan"
  /\ cursor < Len(Candidates)
  /\ LET cmd == Candidates[cursor + 1]
     IN recursion_ready(context_commands[cmd.name], cmd, context_commands)

\* line 264-269: the next invocation is expanded: apply, the splice of
\* LatexCommand.invoke, and the check of the size of the tree
Expand ==
  /\ CanExpand
  /\ LET cmd == Candidates[cursor + 1]
         callback == context_commands[cmd.name]
         priority == all_priorities[pidx]
         res == Apply(callback, context, cmd, arg_data(cmd))
         after == ReplaceNth(soup, command_keys(context_commands, priority), cursor + 1, res.repl)
     IN /\ lastExp' = [valid |-> TRUE, name |-> cmd.name, cls |-> callback.cls,
                       priority |-> priority, iter |-> i,
                       innerTable |-> InnerTable(cmd),
                       directArg |-> DirectArgInvocation(cmd),
                       directContent |-> DirectContentInvocation(cmd),
                       higherReady |-> \E q \in ReadyLevels(soup) : q > priority]
        /\ IF res.err # ""
           THEN /\ pc' = "failed"
                /\ err' = res.err
                /\ UNCHANGED <<soup, context, last_stage, nexp, levels>>
           ELSE /\ soup' = after
                /\ context' = res.ctx
                /\ last_stage' = StageAfterInvoke(last_stage, priority)
                /\ nexp' = nexp + 1
                /\ levels' = [levels EXCEPT ![Len(levels)].expanded = @ + 1]
                /\ IF SizeExceeded(Len(StrSeq(after)), cfg.char_limit)
                   THEN pc' = "failed" /\ err' = "SizeLimitExceeded"
                   ELSE pc' = pc /\ err' = err
  /\ UNCHANGED <<input, all_priorities, i, pidx, cursor, fold, run, readyAtStart>>

\* a scan that never stops before the lowest level
LevelBreaks_Never(stage, priority) == FALSE

\* a scan that stops after a level that expanded nothing
LevelBreaks_OnZero(stage, priority) == stage # priority

\* line 270: whether the scan of the priorities stops after this level
LevelBreaks(stage, priority) == stage = priority

\* line 270-271: the level is exhausted and expanded something: the scan of the
\* priorities stops
LevelBreak ==
  /\ pc = "scan"
  /\ cursor >= Len(Candidates)
  /\ LevelBreaks(last_stage, all_priorities[pidx])
  /\ pc' = "endouter"
  /\ UNCHANGED <<input, all_priorities, soup, context, i, scan, err, fold, run, nexp,
                 levels, readyAtStart, lastExp>>

\* line 257: the level is exhausted and the scan goes on to the next lower
\* priority, or ends after the lowest
LevelNext ==
  /\ pc = "scan"
  /\ cursor >= Len(Candidates)
  /\ ~LevelBreaks(last_stage, all_priorities[pidx])
  /\ IF pidx < Len(all_priorities)
     THEN /\ pidx' = pidx + 1
          /\ cursor' = 0
          /\ levels' = Append(levels, [priority |-> all_priorities[pidx + 1], expanded |-> 0])
          /\ pc' = pc
     ELSE /\ pc' = "endouter"
          /\ UNCHANGED <<pidx, cursor, levels>>
  /\ UNCHANGED <<input, all_priorities, soup, context, i, last_stage, err, fold, run, nexp,
                 readyAtStart, lastExp>>

\* line 272: whether the rewrite loop is complete after this outer iteration
Converged(stage) == stage = priority_cap

\* line 272-273: the outer iteration ends; the loop is left when it expanded
\* nothing
EndOuter ==
  /\ pc = "endouter"
  /\ IF Converged(last_stage)
     THEN pc' = "converted" /\ i' = i
     ELSE pc' = "outer" /\ i' = i + 1
  /\ UNCHANGED <<input, all_priorities, soup, context, scan, err, fold, run, nexp,
                 levels, readyAtStart, lastExp>>

\* the rewrite loop is run once more on the tree it returned, with the same
\* command table
Rerun ==
  /\ pc = "converted"
  /\ run = 1
  /\ run' = 2
  /\ i' = 0
  /\ nexp' = 0
  /\ pc' = "outer"
  /\ UNCHANGED <<input, all_priorities, soup, context, scan, err, fold,
                 levels, readyAtStart, lastExp>>

\* -------------------------------------------------------------- build_latex

\* a flush that appends nothing to the document
collect_excess_Silent(objs, m, left) == [err |-> "", objects |-> objs]

\* converter.collect_excess: up to left flushes of the node m, the descriptors
\* appended to objs; the for loop running out raises
\* a fresh node that is not given the excess
Refill_Empty(excess_text) == FreshText

\* line 84-86: the fresh text node that replaces a finalized one collects the
\* excess text when there is some
Refill(excess_text) ==
  IF excess_text # <<>> THEN Collect(FreshText, FALSE, excess_text).node ELSE FreshText

RECURSIVE collect_excess(_, _, _)
collect_excess(objs, m, left) ==
  IF left = 0 THEN [err |-> "ExcessStackingLimit", objects |-> objs]
  ELSE LET r == Collect(m, TRUE, <<>>)
       IN IF r.some
          THEN collect_excess(Append(objs, r.node.kwargs),
                              Refill(r.excess),
                              left - 1)
          ELSE [err |-> "", objects |-> objs]

\* context.get(name) is falsy: the key is missing or holds the empty string
Falsy(attr) == ~attr.set \/ attr.v = <<>>

\* line 101-110: both global attributes must be set, or the conversion fails
CheckGlobals ==
  /\ pc = "converted"
  /\ IF Falsy(context.sheet_id) THEN pc' = "failed" /\ err' = "no_sheet_id"
     ELSE IF Falsy(context.sheet_name) THEN pc' = "failed" /\ err' = "no_sheet_name"
     ELSE pc' = "fold" /\ err' = err
  /\ current_metadata' = FreshText
  /\ fpos' = 1
  /\ UNCHANGED <<input, all_priorities, soup, context, i, scan, objects, run, nexp,
                 levels, readyAtStart, lastExp>>

\* line 122: a node whose contents are [""]
IsPlaceholder(n) == n.k \in {"cmd", "env", "group"} /\ Children(n) = <<TextLeaf(<<>>)>>

\* line 113-118: a text child is fed to the current node
FoldText ==
  /\ pc = "fold"
  /\ fpos <= Len(soup)
  /\ soup[fpos].k = "text"
  /\ LET r == Collect(current_metadata, FALSE, Str(soup[fpos]))
     IN IF r.some
        THEN /\ objects' = Append(objects, r.node.kwargs)
             /\ current_metadata' = FreshText
        ELSE /\ objects' = objects
             /\ current_metadata' = r.node
  /\ fpos' = fpos + 1
  /\ UNCHANGED <<pc, input, all_priorities, soup, context, i, scan, err, run, nexp,
                 levels, readyAtStart, lastExp>>

\* line 119-121: a MetadataNode child flushes the current node and becomes it
FoldMeta ==
  /\ pc = "fold"
  /\ fpos <= Len(soup)
  /\ soup[fpos].k = "meta"
  /\ LET r == collect_excess(objects, current_metadata, cfg.excess_stacking)
     IN IF r.err # ""
        THEN /\ pc' = "failed"
             /\ err' = r.err
             /\ UNCHANGED fold
        ELSE /\ objects' = r.objects
             /\ current_metadata' = soup[fpos].kw
             /\ fpos' = fpos + 1
             /\ UNCHANGED <<pc, err>>
  /\ UNCHANGED <<input, all_priorities, soup, context, i, scan, run, nexp,
                 levels, readyAtStart, lastExp>>

\* line 122-125: an empty placeholder is passed over, any other node raises
FoldNode ==
  /\ pc = "fold"
  /\ fpos <= Len(soup)
  /\ soup[fpos].k \notin {"text", "meta"}
  /\ IF IsPlaceholder(soup[fpos])
     THEN fpos' = fpos + 1 /\ UNCHANGED <<pc, err>>
     ELSE pc' = "failed" /\ err' = "UnrecognizedNode" /\ fpos' = fpos
  /\ UNCHANGED <<input, all_priorities, soup, context, i, scan, objects, current_metadata,
                 run, nexp, levels, readyAtStart, lastExp>>

\* line 127-128: the last current node is flushed and the document returned
FoldEnd ==
  /\ pc = "fold"
  /\ fpos > Len(soup)
  /\ LET r == collect_excess(objects, current_metadata, cfg.excess_stacking)
     IN IF r.err # ""
        THEN pc' = "failed" /\ err' = r.err /\ objects' = objects
        ELSE pc' = "done" /\ err' = err /\ objects' = r.objects
  /\ UNCHANGED <<input, all_priorities, soup, context, i, scan, current_metadata, fpos,
                 run, nexp, levels, readyAtStart, lastExp>>

\* ---------------------------------------------------------------- documents

\* the longest body of a document
MaxBody == 2

x == TextLeaf(<<"x">>)

SheetId == Cmd("sheetid", <<Brace(<<TextLeaf(<<"s">>)>>)>>)

SheetName == Cmd("sheetname", <<Brace(<<TextLeaf(<<" ", "n">>)>>)>>)

\* \newcommand{\foo}{\foo}
SelfMacro == Cmd("newcommand", <<Brace(<<Cmd("foo", <<>>)>>), Brace(<<Cmd("foo", <<>>)>>)>>)

\* the top-level pieces documents are made of
Pieces ==
  { TextLeaf(<<"a">>),
    TextLeaf(<<"a", NL, NL, "b">>),
    SheetId,
    Cmd("textbf", <<Brace(<<Cmd("textbf", <<Brace(<<Cmd("ldots", <<>>)>>)>>)>>)>>),
    Cmd("textbf", <<Brace(<<Group(<<Cmd("ldots", <<>>)>>)>>)>>),
    Cmd("sheetid", <<Brace(<<Cmd("textbf", <<Brace(<<x>>)>>)>>)>>),
    Cmd("textbf", <<Brace(<<Cmd("z", <<>>)>>)>>),
    Cmd("z", <<>>),
    Env("center", <<Cmd("textbf", <<Brace(<<x>>)>>)>>),
    Env("tikzpicture", <<x>>),
    Group(<<x>>),
    Cmd("textbf", <<Brace(<<Group(<<Cmd("z", <<>>)>>)>>)>>),
    Env("itemize", <<Item(<<TextLeaf(<<" ", "a">>)>>), Item(<<TextLeaf(<<" ", "b">>)>>)>>),
    Env("itemize", <<Cmd("ldots", <<>>), Item(<<TextLeaf(<<" ", "a">>)>>)>>),
    Cmd("it", <<>>),
    Cmd("foo", <<>>),
    SelfMacro }

\* what a document begins with: nothing, or the two global settings
Headers == {<<>>, <<SheetId, SheetName>>}

Bodies == UNION {[1..n -> Pieces] : n \in 0..MaxBody}

Documents == {h \o b : h \in Headers, b \in Bodies}

\* the configurations: command-nesting-limit, character-limit, excess-stacking
Configs ==
  { [nesting_limit |-> 5, char_limit |-> 1000, excess_stacking |-> 3],
    [nesting_limit |-> 2, char_limit |-> 1000, excess_stacking |-> 3],
    [nesting_limit |-> 0, char_limit |-> 1000, excess_stacking |-> 3],
    [nesting_limit |-> 5, char_limit |-> 30, excess_stacking |-> 2] }

Init ==
  /\ pc = "discover"
  /\ cfg \in Configs
  /\ doc \in Documents
  /\ context_commands = BuiltinCommands
  /\ all_priorities = <<>>
  /\ soup = doc
  /\ context = NewContext
  /\ i = 0
  /\ pidx = 1
  /\ cursor = 0
  /\ last_stage = priority_cap
  /\ err = ""
  /\ objects = <<>>
  /\ current_metadata = FreshText
  /\ fpos = 1
  /\ run = 1
  /\ nexp = 0
  /\ levels = <<>>
  /\ readyAtStart = {}
  /\ lastExp = NoExp
  /\ call = NoCall

Next ==
  \/ Discover
  \/ OuterStart
  \/ Skip
  \/ Expand
  \/ LevelBreak
  \/ LevelNext
  \/ EndOuter
  \/ Rerun
  \/ CheckGlobals
  \/ FoldText
  \/ FoldMeta
  \/ FoldNode
  \/ FoldEnd

Spec == Init /\ [][Next]_vars

\* ------------------------------------------------------- the rewrite loop

\* C1: when the rewrite loop reports completion, the outer iteration it ended
\* with scanned every priority level and expanded nothing, no invocation of the
\* tree is recursion-ready, and a second run of the loop on the returned tree
\* expands nothing.
C1_FixedPoint ==
  /\ pc = "converted" =>
       /\ Len(levels) = Len(all_priorities)
       /\ \A j \in 1..Len(levels) :
            levels[j].priority = all_priorities[j] /\ levels[j].expanded = 0
       /\ ReadyLevels(soup) = {}
  /\ run = 2 => nexp = 0

\* the second run completed on a tree whose first run expanded in two outer iterations
C1_Witness == run = 2 /\ pc = "converted" /\ lastExp.valid /\ lastExp.iter >= 1

\* C2 as stated: whenever an invocation is expanded, no command of a higher
\* priority has a recursion-ready invocation in the tree (its expansion would
\* have been spliced first).
C2_Original == lastExp.valid => ~lastExp.higherReady

\* C2, amended: the levels are scanned from the highest priority down; a level
\* is reached only after every higher level was scanned and expanded nothing;
\* the one level that expands in an outer iteration is the highest that had a
\* recursion-ready invocation when the iteration began, so no lower-priority
\* command is expanded in an iteration that began with a higher one ready.
C2_PriorityOrder ==
  pc \in {"scan", "endouter"} =>
    /\ \A j \in 1..Len(levels) : levels[j].priority = all_priorities[j]
    /\ \A j, m \in 1..Len(levels) : j < m => levels[j].priority > levels[m].priority
    /\ \A j \in 1..(Len(levels) - 1) :
         levels[j].expanded = 0 /\ levels[j].priority \notin readyAtStart
    /\ levels[Len(levels)].expanded > 0 =>
         /\ readyAtStart # {}
         /\ levels[Len(levels)].priority = MaxOf(readyAtStart)
    /\ (pc = "endouter" /\ readyAtStart # {}) => levels[Len(levels)].expanded > 0

\* a lower level expanded in a later outer iteration than a higher one
C2_Witness ==
  /\ pc = "endouter"
  /\ lastExp.valid /\ lastExp.priority < 0 /\ lastExp.iter >= 1
  /\ levels[Len(levels)].expanded > 0

SelfReferential(d) ==
  /\ \E j \in 1..Len(d) : d[j] = SelfMacro
  /\ \E j \in 1..Len(d) : d[j] = Cmd("foo", <<>>)

\* C3 as stated: the loop never runs more than command-nesting-limit outer
\* iterations, and a document with a self-referential macro and its invocation,
\* under a nesting limit of 5, ends with the nesting-limit error after exactly 5
\* outer iterations.
C3_Original ==
  /\ i <= cfg.nesting_limit
  /\ (SelfReferential(doc) /\ cfg.nesting_limit = 5 /\ pc \in {"done", "failed"}) =>
       (err = "NestingLimitExceeded" /\ i = 5)

\* C9 as stated: once a level was scanned and expanded nothing, no lower level
\* is scanned in the outer iteration.
C9_Original == \A j \in 1..(Len(levels) - 1) : levels[j].expanded > 0

\* C9, amended: the scan of an outer iteration goes on past every level that
\* expanded nothing and halts after the first level that expanded something (or
\* after the lowest level); every outer iteration starts from the highest
\* priority of the table.
C9_ScanHalts ==
  pc \in {"scan", "endouter"} =>
    /\ \A j \in 1..(Len(levels) - 1) : levels[j].expanded = 0
    /\ pc = "endouter" =>
         (levels[Len(levels)].expanded > 0 \/ Len(levels) = Len(all_priorities))
    /\ levels[1].priority =
         MaxOf({get_priority(context_commands[n]) : n \in DOMAIN context_commands})

\* a scan that passed two levels without expansions and halted after the third
C9_Witness ==
  /\ pc = "endouter" /\ i >= 1
  /\ Len(levels) = 3 /\ levels[3].expanded > 0

TextOnly(ns) == \A j \in 1..Len(ns) : ns[j].k = "text"

\* no invocation of a table command and no macro definition
NoCommands(d) ==
  FindAll(d, DOMAIN context_commands \cup {"newcommand", "renewcommand"}) = <<>>

\* the descriptor of a text object
TextObject(s) == [Kwargs("text") EXCEPT !.hasText = TRUE, !.text = s]

\* the part of a document after the two global settings
Body(d) == SubSeq(d, 3, Len(d))

Settled(d) == Len(d) > 2 /\ d[1] = SheetId /\ d[2] = SheetName /\ TextOnly(Body(d))

\* C4 as stated, for a document that is not empty and a nesting limit that lets
\* the loop run: a document without recognized commands and macro definitions
\* is converted, to exactly one text object whose text is the document's text.
C4_Original ==
  (NoCommands(doc) /\ doc # <<>> /\ cfg.nesting_limit > 0 /\ pc \in {"done", "failed"}) =>
    (pc = "done" /\ objects = <<TextObject(StrSeq(doc))>>)

\* C4, amended: a document of text alone is never converted (it fails for the
\* missing sheet id, when the nesting limit lets the loop run at all); a document
\* of the two global settings followed by text that is not empty and holds no
\* paragraph break, when converted, gives exactly one object, of class text,
\* whose text is the text after the settings.
C4_TextRoundTrip ==
  /\ (TextOnly(doc) /\ pc \in {"done", "failed"}) =>
       (pc = "failed" /\ (cfg.nesting_limit > 0 => err = "no_sheet_id"))
  /\ (Settled(doc) /\ pc = "done" /\ FindBreak(StrSeq(Body(doc))) = 0) =>
       objects = <<TextObject(StrSeq(Body(doc)))>>

\* the two settings and two text leaves, converted
C4_Witness ==
  /\ pc = "done" /\ Settled(doc) /\ Len(doc) = 4
  /\ FindBreak(StrSeq(Body(doc))) = 0

HasInvocation(d, name) == FindAll(d, {name}) # <<>>

\* what convert_latex raises
RewriteErrors ==
  {"MalformedMacro", "TypeError", "NestingLimitExceeded", "SizeLimitExceeded",
   "InvalidArgumentCount", "DeprecatedCommand", "ItemExtractionError", "IndexError",
   "KeyError"}

NoMacro(d) == FindAll(d, {"newcommand", "renewcommand"}) = <<>>

\* C5 as stated, for documents without macro definitions under a nesting limit
\* that lets the loop run: folding begins only with both global attributes
\* written; a document without \sheetid ends with the missing-sheet-id error,
\* one with \sheetid and without \sheetname with the missing-sheet-name error.
C5_Original ==
  (NoMacro(doc) /\ cfg.nesting_limit > 0) =>
    /\ pc \in {"fold", "done"} => (context.sheet_id.set /\ context.sheet_name.set)
    /\ (~HasInvocation(doc, "sheetid") /\ pc \in {"done", "failed"}) =>
         (pc = "failed" /\ err = "no_sheet_id")
    /\ (HasInvocation(doc, "sheetid") /\ ~HasInvocation(doc, "sheetname")
          /\ pc \in {"done", "failed"}) =>
         (pc = "failed" /\ err = "no_sheet_name")

\* C5, amended: folding begins, and a Document is returned, only with both
\* global attributes written, non-empty, by invocations of the document; a
\* document without \sheetid is never folded and fails with the missing-sheet-id
\* error unless the rewrite itself failed; one whose sheet id is set and that has
\* no \sheetname likewise, with the missing-sheet-name error; and the two errors
\* are raised with no object built.
C5_GlobalsRequired ==
  /\ pc \in {"fold", "done"} =>
       /\ ~Falsy(context.sheet_id) /\ ~Falsy(context.sheet_name)
       /\ HasInvocation(doc, "sheetid") /\ HasInvocation(doc, "sheetname")
  /\ ~HasInvocation(doc, "sheetid") =>
       /\ pc \notin {"fold", "done"}
       /\ pc = "failed" => err \in RewriteErrors \cup {"no_sheet_id"}
  /\ (~Falsy(context.sheet_id) /\ ~HasInvocation(doc, "sheetname")) =>
       /\ pc \notin {"fold", "done"}
       /\ pc = "failed" => err \in RewriteErrors \cup {"no_sheet_name"}
  /\ err \in {"no_sheet_id", "no_sheet_name"} => objects = <<>>

\* the rewrite completed after expansions and the sheet name is missing
C5_Witness ==
  /\ pc = "failed" /\ err = "no_sheet_name"
  /\ HasInvocation(doc, "sheetid") /\ ~HasInvocation(doc, "sheetname")

\* ------------------------------------------------- MetadataNode.collect alone

\* the longest buffer a node collects
MaxBuf == 6

Chunks == {<<"a">>, <<"b">>, <<NL>>, <<NL, NL>>}

\* the variables the function-level specifications leave alone
loop == <<cfg, doc, context_commands, all_priorities, soup, i, scan, err, run, nexp,
          levels, readyAtStart, lastExp>>

InitLoopIdle ==
  /\ cfg = [nesting_limit |-> 5, char_limit |-> 1000, excess_stacking |-> 3]
  /\ doc = <<>>
  /\ context_commands = BuiltinCommands
  /\ all_priorities = <<>>
  /\ soup = <<>>
  /\ i = 0
  /\ pidx = 1
  /\ cursor = 0
  /\ last_stage = priority_cap
  /\ err = ""
  /\ run = 1
  /\ nexp = 0
  /\ levels = <<>>
  /\ readyAtStart = {}
  /\ lastExp = NoExp

\* the text a node has collected
Buffer(m) == IF m.kwargs.hasText THEN m.kwargs.text ELSE <<>>

\* the most objects a run appends to the document
MaxFlushed == 2

\* a call of collect on the node m: what it was given, what it returned, and
\* the length of the document's object list before and after the caller's append
CollectCall(fn, m, chunk, r, prev) ==
  [fn |-> fn, collects |-> m.collect_text, bag |-> m.kwargs, before |-> Buffer(m),
   chunk |-> chunk, some |-> r.some, text |-> Buffer(r.node), returned |-> r.node.kwargs,
   excess |-> r.excess, had |-> prev.has,
   has |-> prev.has + (IF r.some THEN 1 ELSE 0)]

InitCollect ==
  /\ InitLoopIdle
  /\ pc = "collect"
  /\ context = NewContext
  /\ objects = <<>>
  /\ current_metadata \in {FreshText, MetadataNode("tikz", FALSE, Kwargs("tikz"))}
  /\ fpos = 1
  /\ call = [fn |-> "new", collects |-> TRUE, bag |-> Kwargs("text"), before |-> <<>>,
             chunk |-> <<>>, some |-> FALSE, text |-> <<>>, returned |-> Kwargs("text"),
             excess |-> <<>>, had |-> 0, has |-> 0]

\* collect(text), as build_latex calls it: the chunk is appended to the
\* buffer; a descriptor returned is appended to the document and a fresh
\* text node takes over
CollectFeed ==
  /\ pc = "collect"
  /\ \E chunk \in Chunks :
       /\ Len(Buffer(current_metadata)) + Len(chunk) <= MaxBuf
       /\ LET r == Collect(current_metadata, FALSE, chunk)
          IN /\ r.some => call.has < MaxFlushed
             /\ current_metadata' = IF r.some THEN FreshText ELSE r.node
             /\ call' = CollectCall("feed", current_metadata, chunk, r, call)
  /\ UNCHANGED <<pc, loop, context, objects, fpos>>

\* collect(None), and what collect_excess does with its result: a finalized node
\* is appended to the document and replaced by a fresh text node that collects
\* the excess
CollectFlush ==
  /\ pc = "collect"
  /\ LET r == Collect(current_metadata, TRUE, <<>>)
     IN /\ r.some => call.has < MaxFlushed
        /\ call' = CollectCall("flush", current_metadata, <<>>, r, call)
        /\ current_metadata' =
             IF ~r.some THEN r.node ELSE Refill(r.excess)
  /\ UNCHANGED <<pc, loop, context, objects, fpos>>

NextCollect == CollectFeed \/ CollectFlush

SpecCollect == InitCollect /\ [][NextCollect]_vars

\* a double newline begins at index p of s
BreakAt(s, p) == p + 1 <= Len(s) /\ s[p] = NL /\ s[p + 1] = NL

\* C6: a flush of a text-collecting node whose buffer holds a double newline
\* finalizes it with the text before the first double newline and returns all
\* that follows that double newline as excess; a buffer that is not empty and
\* holds no double newline is finalized whole, with empty excess.
C6_FlushSplits ==
  (call.fn = "flush" /\ call.collects /\ call.before # <<>>) =>
    /\ call.some
    /\ IF \E p \in 1..Len(call.before) : BreakAt(call.before, p)
       THEN /\ call.text \o <<NL, NL>> \o call.excess = call.before
            /\ \A p \in 1..Len(call.text) : ~BreakAt(call.before, p)
       ELSE call.text = call.before /\ call.excess = <<>>

\* the buffer "a\n\nb\n\n" was flushed to the text "a" and the excess "b\n\n"
C6_Witness ==
  /\ call.fn = "flush"
  /\ call.before = <<"a", NL, NL, "b", NL, NL>>
  /\ call.text = <<"a">>
  /\ call.excess = <<"b", NL, NL>>

\* --------------------------------------------------- ProblemMacro.apply alone

\* the most applications of problem macros in a run
MaxApply == 4

\* None, or a step
Steps == {<<>>, <<-1>>, <<0>>, <<1>>, <<2>>}

\* the values of problem_skip_indices: no skips, one, two
SkipIndices == {{}, {2}, {1, 3}}

\* the problem macros of BuiltinCommands
ProblemMacros == {n \in DOMAIN BuiltinCommands : BuiltinCommands[n].cls = "ProblemMacro"}

ProblemCall(name, cmd, args, res, prev) ==
  [fn |-> "problem", name |-> name, cmd |-> cmd, args |-> args, before |-> context,
   num |-> res.repl[1].kw.kwargs.num,
   leth |-> Chr(letter_index(res.ctx.letter, res.ctx.skips)), n |-> prev.n + 1,
   advanced |-> prev.advanced + (IF cmd.problem # <<>> /\ cmd.problem[1] > 0 THEN 1 ELSE 0),
   builtinOnly |-> prev.builtinOnly /\ name # ""]

InitProblem ==
  /\ InitLoopIdle
  /\ pc = "problem"
  /\ \E skips \in SkipIndices : context = [NewContext EXCEPT !.skips = skips]
  /\ objects = <<>>
  /\ current_metadata = FreshText
  /\ fpos = 1
  /\ call = [fn |-> "new", name |-> "", cmd |-> BaseCommand("ProblemMacro"), args |-> <<>>,
             before |-> NewContext, num |-> <<>>, leth |-> "", n |-> 0, advanced |-> 0, builtinOnly |-> TRUE]

\* a problem macro of the command table is applied, bare or with one argument
ApplyBuiltin ==
  /\ pc = "problem"
  /\ call.n < MaxApply
  /\ \E name \in ProblemMacros, args \in {<<>>, <<<<"x">>>>} :
       LET cmd == context_commands[name]
           res == ProblemMacroApply(cmd, context, Cmd(name, <<>>), args)
       IN /\ context' = res.ctx
          /\ call' = ProblemCall(name, cmd, args, res, call)
  /\ UNCHANGED <<pc, loop, fold>>

\* a problem macro with any two steps is applied
ApplyMacro ==
  /\ pc = "problem"
  /\ call.n < MaxApply
  /\ \E problem \in Steps, letter \in Steps :
       LET cmd == ProblemMacro(<<"%(z)i", "%(leth)s">>, letter, problem, TRUE, <<>>)
           res == ProblemMacroApply(cmd, context, Cmd("p", <<>>), <<>>)
       IN /\ context' = res.ctx
          /\ call' = ProblemCall("", cmd, <<>>, res, call)
  /\ UNCHANGED <<pc, loop, fold>>

NextProblem == ApplyBuiltin \/ ApplyMacro

SpecProblem == InitProblem /\ [][NextProblem]_vars

\* the rule of the counters: None keeps, a positive step adds, another assigns
StepRule(before, step, after) ==
  /\ step = <<>> => after = before
  /\ (step # <<>> /\ step[1] > 0) => after = before + step[1]
  /\ (step # <<>> /\ step[1] <= 0) => after = step[1]

\* C7: an application updates the problem and the letter counter by the rule
\* (None keeps, a positive step adds, a non-positive step assigns); \z applied
\* bare to a fresh context sets the problem counter to 1 and numbers "1."; after
\* applications of table macros alone the problem counter is the number of
\* problem-advancing macros applied; the letter counter decreases only by the
\* assignment of a non-positive step.
C7_CounterRule ==
  call.fn = "problem" =>
    /\ StepRule(call.before.problem, call.cmd.problem, context.problem)
    /\ StepRule(call.before.letter, call.cmd.letter, context.letter)
    /\ (call.n = 1 /\ call.name = "z" /\ call.args = <<>>) =>
         (context.problem = 1 /\ call.num = <<"1", ".">>)
    /\ call.builtinOnly => context.problem = call.advanced
    /\ context.letter < call.before.letter =>
         (call.cmd.letter # <<>> /\ call.cmd.letter[1] <= 0 /\ context.letter = call.cmd.letter[1])

\* \leth, \leth, then \z: the third application reset the letter counter from 2 to 0
C7_Witness ==
  /\ call.fn = "problem" /\ call.name = "z" /\ call.builtinOnly
  /\ call.n = 3 /\ call.before.letter = 2 /\ context.letter = 0 /\ context.problem = 1

\* ---------------------------------------------------- TextCommand.apply alone

\* the largest arity of a command
MaxArity == 2

\* the values arguments take
ArgValues == {<<"a">>, <<"b">>, <<" ", "c", " ">>}

\* the contents of arity n: the placeholders #1 .. #n, adjacent or separated
Contents(n) ==
  CASE n = 0 -> {<<".">>}
    [] n = 1 -> {<<"*", "#", "1", "*">>, <<"#", "1">>}
    [] n = 2 -> {<<"#", "1", "-", "#", "2">>, <<"#", "1", "#", "2">>}
    [] OTHER -> {<<"#", "1", "-", "#", "2", "-", "#", "3">>}

InitText ==
  /\ InitLoopIdle
  /\ pc = "text"
  /\ context = NewContext
  /\ objects = <<>>
  /\ current_metadata = FreshText
  /\ fpos = 1
  /\ \E n \in 0..MaxArity, opt \in {<<>>, <<<<"o">>>>}, trim \in BOOLEAN :
       \E content \in Contents(n) :
         call = [fn |-> "new", raw |-> content, cmd |-> TextCommand(content, n, opt, trim),
                 args |-> <<>>, res |-> Result("", <<>>, NewContext)]

\* the command is applied to k arguments, k up to one more than the arity
ApplyText ==
  /\ pc = "text"
  /\ \E k \in 0..(MaxArity + 1) : \E args \in [1..k -> ArgValues] :
       call' = [call EXCEPT !.fn = "apply", !.args = args,
                            !.res = TextCommandApply(call.cmd, context, Cmd("t", <<>>), args)]
  /\ UNCHANGED <<pc, loop, context, fold>>

NextText == ApplyText

SpecText == InitText /\ [][NextText]_vars

\* the content with every "#d" replaced by the d-th of args
RECURSIVE Positional(_, _)
Positional(content, args) ==
  IF content = <<>> THEN <<>>
  ELSE IF Len(content) >= 2 /\ content[1] = "#" /\ IsDigit(content[2])
  THEN args[DigitVal(content[2])] \o Positional(SubSeq(content, 3, Len(content)), args)
  ELSE <<content[1]>> \o Positional(Tail(content), args)

\* the arguments as the command passes them on: stripped when it trims
Passed(cmd, args) == IF cmd.trim_contents THEN [j \in 1..Len(args) |-> Strip(args[j])] ELSE args

\* C8 as stated: k arguments to a command of arity n raise the
\* invalid-argument-count error exactly when k > n, or k < n - 1, or k = n - 1
\* without an optional default; k = n substitutes the arguments positionally,
\* and k = n - 1 with an optional default substitutes the default then the
\* arguments.
C8_Original ==
  call.fn = "apply" =>
    LET n == call.cmd.num_args
        k == Len(call.args)
        opt == call.cmd.optional_arg
        invalid == k > n \/ k < n - 1 \/ (k = n - 1 /\ opt = <<>>)
    IN /\ call.res.err = "InvalidArgumentCount" <=> invalid
       /\ (~invalid /\ k = n) =>
            call.res.repl = <<TextLeaf(Positional(call.raw, Passed(call.cmd, call.args)))>>
       /\ (~invalid /\ k = n - 1) =>
            call.res.repl = <<TextLeaf(Positional(call.raw, Passed(call.cmd, opt \o call.args)))>>

\* ------------------------------------------------------- limits of the loop

\* C11: the size of the tree is checked after every expansion: while the scan
\* goes on after an expansion the tree is within character-limit, the
\* size-limit error leaves a tree over the limit, and a rewrite that expanded
\* something and completed ends with a tree within the limit.
C11_SizeChecked ==
  /\ (pc = "scan" /\ nexp > 0) => Len(StrSeq(soup)) <= cfg.char_limit
  /\ err = "SizeLimitExceeded" => (pc = "failed" /\ Len(StrSeq(soup)) > cfg.char_limit)
  /\ (pc \in {"endouter", "converted", "fold", "done"} /\ lastExp.valid) =>
       Len(StrSeq(soup)) <= cfg.char_limit

\* under the small limit, a second expansion left the tree over the limit
C11_Witness ==
  /\ err = "SizeLimitExceeded" /\ nexp >= 2
  /\ Len(StrSeq(doc)) <= cfg.char_limit

\* the longest body of the documents whose termination is followed step by step
MaxTermBody == 1

\* build_latex on the documents of at most MaxTermBody pieces
InitTerm ==
  /\ Init
  /\ \E h \in Headers, n \in 0..MaxTermBody : \E b \in [1..n -> Pieces] : doc = h \o b

SpecTerm == InitTerm /\ [][Next]_vars

\* the invocations of table commands in the tree ns
Invocations(ns) == Len(FindAll(ns, DOMAIN context_commands))

\* what is left of the scan of one outer iteration: the levels below the
\* current one, each worth more than any level's invocations, and the
\* invocations of the current level the scan has not passed
ScanLeft ==
  (Len(all_priorities) - pidx) * (Invocations(doc) + 1) + (Len(Candidates) - cursor)

\* more than an outer iteration takes: there are no more levels than commands
IterationMost == Cardinality(DOMAIN context_commands) * (Invocations(doc) + 1) + 3

\* more than the fold takes: an expansion puts at most three nodes for one
FoldMost == Len(doc) + 2 * Invocations(doc) + 3

\* what is left of one run of the rewrite loop
LoopLeft ==
  (cfg.nesting_limit - i) * IterationMost
    + (CASE pc = "outer" -> IterationMost - 1
         [] pc = "scan" -> ScanLeft + 2
         [] OTHER -> 1)

\* more than one run of the rewrite loop takes
RunMost == FoldMost + (cfg.nesting_limit + 1) * IterationMost + 1

\* a bound on the steps a conversion has left
Rank ==
  CASE pc \in {"done", "failed"} -> 0
    [] pc = "fold" -> 1 + (Len(soup) + 1 - fpos)
    [] pc = "converted" -> (2 - run) * RunMost + FoldMost
    [] pc = "discover" -> 2 * RunMost + 1
    [] OTHER -> (2 - run) * RunMost + FoldMost + LoopLeft

\* some step of the conversion can be taken
HasStep ==
  CASE pc = "scan" -> CanExpand \/ ENABLED (Skip \/ LevelBreak \/ LevelNext)
    [] pc = "fold" -> ENABLED (FoldText \/ FoldMeta \/ FoldNode \/ FoldEnd)
    [] OTHER -> ENABLED (Discover \/ OuterStart \/ EndOuter \/ CheckGlobals)

\* C12: every conversion terminates: a conversion that has neither returned a
\* Document nor raised an error has a next step, and every step lowers a
\* bound on the steps left that is never negative, so that the outer loop, the
\* scan of a level and the fold all come to an end.
C12_Terminates ==
  /\ [](pc \notin {"done", "failed"} => HasStep)
  /\ [](Rank >= 0)
  /\ [][Rank' < Rank]_vars

\* a conversion that skipped an invocation, took three outer iterations and
\* returned a Document
C12_Witness ==
  /\ pc = "done" /\ i >= 2 /\ Len(objects) >= 1
  /\ \E j \in 1..Len(doc) : DirectArgInvocation(doc[j])

\* ---------------------------------------------------------- the fold

\* the objects the flushes of a buffer give: one for the text before the first
\* double newline, and those of the text after it
RECURSIVE ObjectsOf(_)
ObjectsOf(buf) ==
  IF buf = <<>> THEN 0
  ELSE IF \A p \in 1..Len(buf) : ~BreakAt(buf, p) THEN 1
  ELSE LET p == CHOOSE q \in 1..Len(buf) : BreakAt(buf, q) /\ \A r \in 1..(q - 1) : ~BreakAt(buf, r)
       IN 1 + ObjectsOf(SubSeq(buf, p + 2, Len(buf)))

\* C13 as stated: the excess-stacking-limit error is raised only when the
\* flushes of the current node give more than excess-stacking objects.
C13_Original ==
  err = "ExcessStackingLimit" =>
    ObjectsOf(Buffer(current_metadata)) > cfg.excess_stacking

\* the classes of the markers that open an object of their own
Marked == {"problem", "tikz"}

IsMarker(n) == n.k = "meta" /\ n.kw.kwargs.cls \in Marked

\* the attribute bag without its text
Attributes(kw) == [kw EXCEPT !.hasText = FALSE, !.text = <<>>]

\* the attributes of the markers among the nodes ns, in order
RECURSIVE MarkersOf(_)
MarkersOf(ns) ==
  IF ns = <<>> THEN <<>>
  ELSE (IF IsMarker(ns[1]) THEN <<Attributes(ns[1].kw.kwargs)>> ELSE <<>>) \o MarkersOf(Tail(ns))

\* the text that follows in ns up to the next MetadataNode
RECURSIVE TextUpToMarker(_)
TextUpToMarker(ns) ==
  IF ns = <<>> \/ ns[1].k = "meta" THEN <<>>
  ELSE (IF ns[1].k = "text" THEN ns[1].s ELSE <<>>) \o TextUpToMarker(Tail(ns))

\* the text before the first double newline of buf
FirstParagraph(buf) ==
  IF \A p \in 1..Len(buf) : ~BreakAt(buf, p) THEN buf
  ELSE SubSeq(buf, 1, (CHOOSE q \in 1..Len(buf) :
                         BreakAt(buf, q) /\ \A r \in 1..(q - 1) : ~BreakAt(buf, r)) - 1)

\* the objects of the markers among ns: one for each marker that text follows
RECURSIVE MarkedObjects(_)
MarkedObjects(ns) ==
  IF ns = <<>> THEN <<>>
  ELSE (IF IsMarker(ns[1]) /\ TextUpToMarker(Tail(ns)) # <<>>
        THEN <<[ns[1].kw.kwargs EXCEPT !.hasText = TRUE,
                                       !.text = FirstParagraph(TextUpToMarker(Tail(ns)))]>>
        ELSE <<>>)
       \o MarkedObjects(Tail(ns))

IsMarked(obj) == obj.cls \in Marked

\* C14 as stated: in a Document returned, the objects of class problem or
\* tikz are, one for one and in order, the markers of these classes among the
\* top-level children of the rewritten tree, with the markers' attributes.
C14_Original ==
  pc = "done" =>
    LET objs == SelectSeq(objects, IsMarked)
    IN [j \in 1..Len(objs) |-> Attributes(objs[j])] = MarkersOf(soup)

\* C14, amended: in a Document returned, the objects of class problem or tikz
\* are, in order, one for each marker of these classes that is followed by text
\* that is not empty before the next marker or the end of the tree; the object
\* carries the marker's attributes and the text up to the first double newline;
\* a marker that no text follows gives no object.
C14_MarkersWithText ==
  pc = "done" => SelectSeq(objects, IsMarked) = MarkedObjects(soup)

\* a Document with the object of one marker, and a second marker that gave none
C14_Witness ==
  /\ pc = "done"
  /\ Len(MarkersOf(soup)) = 2
  /\ Len(SelectSeq(objects, IsMarked)) = 1

\* C15: collect on a node that collects text returns a descriptor exactly when
\* it is called with the flush sentinel and the buffer is not empty; a chunk
\* fed is appended to the buffer and gives no object; the flush of an empty
\* buffer gives no object and the document's object list stays as it was; a
\* node that does not collect text returns its attribute bag on every call.
C15_DescriptorIff ==
  call.fn \in {"feed", "flush"} =>
    IF call.collects
    THEN /\ call.some <=> (call.fn = "flush" /\ call.before # <<>>)
         /\ call.fn = "feed" => (call.text = call.before \o call.chunk /\ call.has = call.had)
         /\ (call.fn = "flush" /\ call.before = <<>>) => call.has = call.had
         /\ call.some => call.has = call.had + 1
    ELSE call.some /\ call.returned = call.bag /\ call.excess = <<>>

\* an empty buffer was flushed after an object had been appended
C15_Witness ==
  /\ call.fn = "flush" /\ call.collects /\ call.before = <<>>
  /\ ~call.some /\ call.has = 1

\* ------------------------------------------------------------ the letters

\* C16 as stated: with a letter counter that is not negative, the letter a
\* problem macro emits is none of the letter-skips characters.
C16_Original ==
  (call.fn = "problem" /\ context.letter >= 0) =>
    call.leth \notin {Chr(s) : s \in context.skips}

\* ------------------------------------------------------- macro discovery

\* the well-formed macro definitions of the tree ns: two brace groups and at
\* most two bracket groups
WellFormed(ns) ==
  SelectSeq(FindAll(ns, {"newcommand", "renewcommand"}),
            LAMBDA n : soup_to_command(n) # "MalformedMacro")

\* the name a definition declares: the command in its first brace group
Declared(n) == SelectSeq(n.args, LAMBDA a : a.br = "BraceGroup")[1].c[1].name

\* C17 as stated: once macro discovery is over, the table maps the declared
\* name of every well-formed definition of the document to a TextCommand of
\* priority 0, and no definition is left in the tree.
C17_Original ==
  (pc # "discover" /\ WellFormed(doc) # <<>>) =>
    /\ \A j \in 1..Len(WellFormed(doc)) :
         /\ Declared(WellFormed(doc)[j]) \in DOMAIN context_commands
         /\ context_commands[Declared(WellFormed(doc)[j])].cls = "TextCommand"
         /\ get_priority(context_commands[Declared(WellFormed(doc)[j])]) = 0
    /\ FindAll(soup, {"newcommand", "renewcommand"}) = <<>>

\* ------------------------------------------------- what the loop leaves

\* the names of the commands and environments invoked in the tree ns
RECURSIVE Invoked(_)
Invoked(ns) ==
  IF ns = <<>> THEN {}
  ELSE (IF ns[1].k \in {"cmd", "env"} THEN {ns[1].name} ELSE {})
       \cup Invoked(Children(ns[1])) \cup Invoked(Tail(ns))

\* the rewrite loop has reported completion
Completed ==
  \/ pc \in {"converted", "fold", "done"}
  \/ pc = "failed" /\ err \in {"no_sheet_id", "no_sheet_name", "UnrecognizedNode",
                               "ExcessStackingLimit"}

TopLevelInvocation(ns) ==
  \E j \in 1..Len(ns) : IsInvocation(ns[j], DOMAIN context_commands)

\* C18 as stated: when every name invoked in the document is in the table and
\* the loop has reported completion, no top-level child is an invocation of a
\* table command, and folding does not raise the unrecognized-node error.
C18_Original ==
  (Invoked(doc) \subseteq DOMAIN context_commands /\ Completed) =>
    /\ ~TopLevelInvocation(soup)
    /\ err # "UnrecognizedNode"

\* C18, amended: when the loop has reported completion no invocation of a table
\* command is left anywhere in the tree; folding raises the unrecognized-node
\* error exactly at a top-level child that is neither text nor a metadata node
\* nor a node with contents [""], and that child is not a table invocation.
C18_NoInvocationLeft ==
  /\ Completed => FindAll(soup, DOMAIN context_commands) = <<>>
  /\ err = "UnrecognizedNode" =>
       /\ pc = "failed" /\ fpos <= Len(soup)
       /\ soup[fpos].k \notin {"text", "meta"}
       /\ ~IsPlaceholder(soup[fpos])
       /\ ~IsInvocation(soup[fpos], DOMAIN context_commands)
  /\ (pc \in {"fold", "done"} /\ err = "") =>
       \A j \in 1..(fpos - 1) :
         j <= Len(soup) => (soup[j].k \in {"text", "meta"} \/ IsPlaceholder(soup[j]))

\* every invoked name is in the table, an invocation had to wait for the one in
\* its argument, the loop completed, and folding stopped at a brace group
C18_Witness ==
  /\ err = "UnrecognizedNode" /\ soup[fpos].k = "group"
  /\ Invoked(doc) \subseteq DOMAIN context_commands
  /\ \E j \in 1..Len(doc) : DirectArgInvocation(doc[j])

\* ------------------------------------------------ one level per iteration

\* the levels of this outer iteration that expanded something
Expanding == {j \in 1..Len(levels) : levels[j].expanded > 0}

\* C19 as stated: an outer iteration expands at one priority level at most, the
\* scan stopping after the level that expanded; and a document with
\* recursion-ready invocations at k priority levels completes only after at
\* least k expanding outer iterations.
C19_Original ==
  /\ pc \in {"scan", "endouter"} =>
       (Cardinality(Expanding) <= 1 /\ Expanding \subseteq {Len(levels)})
  /\ (pc = "converted" /\ run = 1) => i >= Cardinality(ReadyLevels(doc))

\* C19, amended: an outer iteration expands at one priority level at most, the
\* last it scans, and every outer iteration starts from the highest priority;
\* every outer iteration before the current one expanded something; a document
\* with a recursion-ready invocation completes only after at least one
\* expanding outer iteration and one that expands nothing.
C19_OneLevel ==
  /\ pc \in {"scan", "endouter"} =>
       /\ Cardinality(Expanding) <= 1 /\ Expanding \subseteq {Len(levels)}
       /\ levels[1].priority = all_priorities[1]
  /\ i <= nexp
  /\ (pc = "converted" /\ run = 1) =>
       /\ Expanding = {}
       /\ ReadyLevels(doc) # {} => i >= 1

\* a document with ready invocations at two levels completed after one
\* expanding iteration
C19_Witness ==
  pc = "converted" /\ run = 1 /\ i = 1 /\ Cardinality(ReadyLevels(doc)) = 2

\* ------------------------------------------------------ the nesting limit

\* the conversion got past the rewrite loop
Succeeded == pc \in {"converted", "fold", "done"}

\* C20: the loop succeeds only in one of the first command-nesting-limit outer
\* iterations and only in one that expanded nothing; a run whose last
\* expansion is in outer iteration number command-nesting-limit does not
\* succeed: the loop is exhausted when that iteration ends;
\* the nesting-limit error is raised after exactly command-nesting-limit
\* iterations, each of which expanded; with a limit of 0 no document succeeds.
C20_LimitCountsFixedPoint ==
  /\ pc = "converted" =>
       /\ i < cfg.nesting_limit
       /\ \A j \in 1..Len(levels) : levels[j].expanded = 0
  /\ (run = 1 /\ lastExp.valid /\ lastExp.iter + 1 = cfg.nesting_limit) =>
       /\ ~Succeeded
       /\ pc = "outer" => (i = cfg.nesting_limit /\ ENABLED OuterStart)
  /\ err = "NestingLimitExceeded" =>
       /\ pc = "failed" /\ i = cfg.nesting_limit
       /\ (run = 1 /\ cfg.nesting_limit > 0) =>
            (lastExp.valid /\ lastExp.iter + 1 = cfg.nesting_limit)
  /\ cfg.nesting_limit = 0 =>
       (~Succeeded /\ (pc = "outer" => ENABLED OuterStart) /\ nexp = 0)

\* a document rejected after two iterations under a limit of 2, its tree at a
\* fixed point: nothing in it is recursion-ready
C20_Witness ==
  /\ err = "NestingLimitExceeded" /\ cfg.nesting_limit = 2
  /\ lastExp.valid /\ lastExp.iter = 1
  /\ FindAll(soup, DOMAIN context_commands) = <<>>

\* ------------------------------------------------------------ folding alone

\* the longest tree that is folded
MaxFold == 3

\* the top-level children folding meets: text with and without paragraph
\* breaks, the nodes the commands leave in the tree, and an empty placeholder
FoldNodes ==
  { TextLeaf(<<"a">>),
    TextLeaf(<<"a", NL, NL, "b">>),
    TextLeaf(<<"b", NL, NL>>),
    TextLeaf(<<NL>>),
    Meta(FreshText),
    Meta(MetadataNode("problem", TRUE, Kwargs("problem"))),
    Meta(MetadataNode("text", TRUE,
                      [Kwargs("text") EXCEPT !.hasText = TRUE, !.text = <<NL, NL, "*", " ", "a">>])),
    Group(<<TextLeaf(<<>>)>>) }

\* build_latex from line 110 on, over a rewritten tree
InitFold ==
  /\ pc = "fold"
  /\ cfg \in {c \in Configs : c.nesting_limit = 5}
  /\ doc = <<>>
  /\ context_commands = BuiltinCommands
  /\ all_priorities = <<>>
  /\ \E n \in 0..MaxFold : soup \in [1..n -> FoldNodes]
  /\ context = NewContext
  /\ i = 0
  /\ pidx = 1
  /\ cursor = 0
  /\ last_stage = priority_cap
  /\ err = ""
  /\ objects = <<>>
  /\ current_metadata = FreshText
  /\ fpos = 1
  /\ run = 1
  /\ nexp = 0
  /\ levels = <<>>
  /\ readyAtStart = {}
  /\ lastExp = NoExp
  /\ call = NoCall

NextFold == FoldText \/ FoldMeta \/ FoldNode \/ FoldEnd

SpecFold == InitFold /\ [][NextFold]_vars

\* the text fields of the objects objs
Texts(objs) == [j \in 1..Len(objs) |-> objs[j].text]

\* the objects the step appends to the document
Appended == SubSeq(objects', Len(objects) + 1, Len(objects'))

\* a step in which collect_excess returns without error
Flushed == (FoldMeta \/ FoldEnd) /\ pc' # "failed"

\* t occurs in s as a contiguous piece
Within(t, s) ==
  \E p \in 0..(Len(s) - Len(t)) : SubSeq(s, p + 1, p + Len(t)) = t

\* the chunks can be found, in order, each in one object of objs
RECURSIVE Placed(_, _)
Placed(chunks, objs) ==
  \/ chunks = <<>>
  \/ \E j \in 1..Len(objs) :
       Within(chunks[1], objs[j].text) /\ Placed(Tail(chunks), SubSeq(objs, j, Len(objs)))

\* the text and math chunks fed to collect, in document order
Fed == LET leaves == SelectSeq(soup, LAMBDA n : n.k = "text")
       IN [j \in 1..Len(leaves) |-> leaves[j].s]

\* C21 as stated: the texts of the objects a call of collect_excess appends,
\* joined with a double newline, are the buffer of the flushed node; and after
\* a successful fold every chunk fed to collect lies in one object's text, in
\* document order.
C21_Original ==
  /\ [][Flushed => Join(Texts(Appended), <<NL, NL>>) = Buffer(current_metadata)]_vars
  /\ [](pc = "done" => Placed(Fed, objects))

\* s without its double newlines, taken from the left
RECURSIVE Squeeze(_)
Squeeze(s) ==
  LET brk == FindBreakFrom(s, 1)
  IN IF brk = 0 THEN s
     ELSE SubSeq(s, 1, brk - 1) \o Squeeze(SubSeq(s, brk + 2, Len(s)))

\* the buffers that are flushed while ns is folded, cur being the buffer of
\* the current node
RECURSIVE Flushes(_, _)
Flushes(ns, cur) ==
  IF ns = <<>> THEN <<cur>>
  ELSE IF ns[1].k = "text" THEN Flushes(Tail(ns), cur \o ns[1].s)
  ELSE IF ns[1].k = "meta" THEN <<cur>> \o Flushes(Tail(ns), Buffer(ns[1].kw))
  ELSE Flushes(Tail(ns), cur)

\* C21, amended: the texts of the objects a call of collect_excess appends,
\* joined with a double newline, are the buffer of the flushed node, or the
\* buffer without a double newline at its end; none of them holds a double
\* newline. After a successful fold the texts of the objects, put together in
\* order, are the flushed buffers without their double newlines: a chunk is
\* cut at each of its double newlines and no other character is lost.
C21_NoTextLost ==
  /\ [][Flushed =>
          LET joined == Join(Texts(Appended), <<NL, NL>>)
          IN /\ \/ joined = Buffer(current_metadata)
                \/ joined \o <<NL, NL>> = Buffer(current_metadata)
             /\ \A j \in 1..Len(Appended) : FindBreakFrom(Appended[j].text, 1) = 0]_vars
  /\ [](pc = "done" =>
          LET bufs == Flushes(soup, <<>>)
          IN Concat(Texts(objects)) = Concat([j \in 1..Len(bufs) |-> Squeeze(bufs[j])]))

\* a successful fold of a chunk with a paragraph break and of a node that
\* came with text, three objects or more appended
C21_Witness ==
  /\ pc = "done" /\ Len(objects) >= 3
  /\ \E j \in 1..Len(soup) : soup[j] = TextLeaf(<<"a", NL, NL, "b">>)
  /\ \E j \in 1..Len(soup) : soup[j].k = "meta" /\ Buffer(soup[j].kw) # <<>>
====
